---------------------------- MODULE Spec2Model ----------------------------
(***************************************************************************)
(* Model of twitch-alerts: the run loop, the credential check, the probe   *)
(* of every watched channel, the state file and the two notification       *)
(* sinks.  The repository holds two snapshots of the program,              *)
(* src/twitch_alerts/__main__.py (impl = "main") and                       *)
(* src/twitch_alerts/_twitch_alerts.py (impl = "lib"); the model runs      *)
(* either one, chosen in Init.                                             *)
(*                                                                         *)
(* Time is counted in ticks, TicksPerSecond ticks to a second, so that     *)
(* int(time.time()) truncates.  Dictionaries are functions; the state file *)
(* is a sequence of JSON tokens, so that an emptied or partly written file *)
(* differs from a written one.  A batch handed to a sink is the set of its *)
(* channel names (the order sorted() gives it is not modelled).            *)
(*                                                                         *)
(* Spec is the run loop with its clock, interruptions and restarts;        *)
(* FairSpec adds that a running process takes its next step; EnvSpec lets  *)
(* the state file be left by an earlier run or deleted between cycles.     *)
(* DiffSpec, StoreSpec and ProbeSpec run _isolate_newly_active, the        *)
(* _save_state/_load_state pair and the loop over channels on their own,   *)
(* on every input of a bounded set.                                        *)
(***************************************************************************)
EXTENDS Integers, Sequences, FiniteSets, TLC

\* ------------------------------------------------------------------ bounds
TicksPerSecond == 2
MaxPeriods == 1
MaxCycles == 2

\* --------------------------------------------------------- program constants
SCAN_FREQUENCY_SECONDS == 300

ScanTicks == SCAN_FREQUENCY_SECONDS * TicksPerSecond
MaxTime == MaxPeriods * ScanTicks + TicksPerSecond

\* sorted(config.twitch_channel_names)
channels == <<"one", "two">>
ChannelSet == {channels[i] : i \in DOMAIN channels}
\* user_login values a status response may carry
Logins == ChannelSet \cup {"other"}
\* keys of the dictionaries the change detector is run on, on its own
Names == ChannelSet \cup {"other"}
\* expires_in values (seconds) a token response may carry
ExpiresIn == {1, SCAN_FREQUENCY_SECONDS + 1}

NoExit == 0 - 1
None == [none |-> TRUE]

VARIABLES
    impl,              \* "main": __main__.py, "lib": _twitch_alerts.py
    loop_flag,         \* _run(loop_flag=...)
    config,            \* Config: discord_webhook_url, pagerduty_key
    response,          \* the status responses the probes are run on, on their own
    now,               \* time.time(), in ticks
    pc,                \* position of the process
    exit_code,         \* exit status of the process, NoExit while it runs
    auth,              \* None or Auth (expires_at in ticks)
    next_scan_at,      \* in ticks
    new_channels,      \* names of the channels to notify about
    state_file,        \* content of STATE_FILE
    previous_state,    \* local of isolate_who_went_live
    current_state,     \* local of isolate_who_went_live
    live_channel_map,  \* local of isolate_who_went_live (lib)
    new_actives,       \* local of isolate_who_went_live
    idx,               \* position of the for loop over channels
    \* history variables
    completed,         \* number of completed calls of isolate_who_went_live
    last_cycle,        \* the cycle (as cycles counts them) of the last completed call
    prev_live,         \* channels probed live in the completed call before the last
    last_live,         \* channels probed live in the last completed call
    last_result,       \* the value the last completed call returned
    live_now,          \* channels whose status response said live, this cycle
    failed,            \* channels whose probe failed, this cycle
    requests,          \* the requests made in the running turn of the while loop
    cycles,            \* number of cycles started
    restarted          \* the process was interrupted or started again

vars == <<impl, loop_flag, config, response, now, pc, exit_code, auth, next_scan_at,
          new_channels, state_file, previous_state, current_state,
          live_channel_map, new_actives, idx, completed, last_cycle, prev_live,
          last_live, last_result, live_now, failed, requests, cycles, restarted>>

\* ------------------------------------------------------------ dictionaries
EmptyDict == [k \in {} |-> FALSE]

DictSet(d, k, v) == [x \in (DOMAIN d) \cup {k} |-> IF x = k THEN v ELSE d[x]]

\* dict.get(k, default)
DictGet(d, k, default) == IF k \in DOMAIN d THEN d[k] ELSE default

\* all dictionaries with keys in S and boolean values
Dicts(S) == UNION {[D -> BOOLEAN] : D \in SUBSET S}

\* ------------------------------------------------------------------- time
\* int(t) of a time t given in ticks: whole seconds, in ticks
int(t) == t - (t % TicksPerSecond)

\* Auth.expired with the comparison off by one: a credential counts as
\* valid at the very tick it expires
expired_late(a) == now > a.expires_at

\* Auth.expired
expired(a) == now >= a.expires_at

\* ------------------------------------------------------------- state file
Absent == [kind |-> "absent"]
File(text) == [kind |-> "file", text |-> text]

RECURSIVE DumpItems(_, _, _)
DumpItems(d, keys, i) ==
    IF i > Len(keys) THEN <<>>
    ELSE (IF keys[i] \in DOMAIN d
          THEN <<[t |-> "item", k |-> keys[i], v |-> d[keys[i]]]>>
          ELSE <<>>) \o DumpItems(d, keys, i + 1)

\* a json.dump that writes only the entries that are true
JsonDumpTruthy(d, keys) ==
    <<[t |-> "open"]>>
    \o DumpItems([k \in {x \in DOMAIN d : d[x]} |-> TRUE], keys, 1)
    \o <<[t |-> "close"]>>

\* json.dump of a dictionary whose keys were inserted in the order of keys
JsonDump(d, keys) == <<[t |-> "open"]>> \o DumpItems(d, keys, 1) \o <<[t |-> "close"]>>

RECURSIVE LoadItems(_, _, _)
LoadItems(text, i, acc) ==
    IF i >= Len(text) THEN acc
    ELSE LoadItems(text, i + 1, DictSet(acc, text[i].k, text[i].v))

\* json.load: the dictionary, or a JSONDecodeError
JsonLoad(text) ==
    IF /\ Len(text) >= 2
       /\ text[1].t = "open"
       /\ text[Len(text)].t = "close"
       /\ \A i \in 2..(Len(text) - 1) : text[i].t = "item"
    THEN [ok |-> TRUE, value |-> LoadItems(text, 2, EmptyDict)]
    ELSE [ok |-> FALSE, value |-> EmptyDict]

\* _load_state that forgets the file: every cycle is a cold start
load_state_cold(f) == [ok |-> TRUE, value |-> EmptyDict]

\* _load_state: os.path.exists, then json.load
load_state(f) ==
    IF f.kind = "absent" THEN [ok |-> TRUE, value |-> EmptyDict]
    ELSE JsonLoad(f.text)

\* a _save_state that opens the file and writes nothing to it
save_state_unwritten(state, keys) == File(<<>>)

\* _save_state: the file it leaves once json.dump is done and the file closed
save_state(state, keys) == File(JsonDump(state, keys))

\* -------------------------------------------------------- change detector
RECURSIVE IsolateLoop(_, _, _, _)
IsolateLoop(previous, current, todo, acc) ==
    IF todo = {} THEN acc
    ELSE LET channel_name == CHOOSE k \in todo : TRUE
             state == current[channel_name]
         IN IsolateLoop(previous, current, todo \ {channel_name},
                        IF state /\ ~DictGet(previous, channel_name, FALSE)
                        THEN acc \cup {channel_name}
                        ELSE acc)

\* _isolate_newly_active without the look at previous_state
isolate_newly_active_all(previous, current) ==
    {channel_name \in DOMAIN current : current[channel_name]}

\* _isolate_newly_active
isolate_newly_active(previous, current) ==
    IsolateLoop(previous, current, DOMAIN current, {})

\* ------------------------------------------------------------------ probes
\* what a status request can come back with
ProbeKinds == {"live", "other_type", "no_type", "empty",
               "http_error", "malformed", "network_error"}
FailureKinds == {"http_error", "malformed", "network_error"}
StatusResponses == [kind : ProbeKinds, user_login : Logins]

\* _is_stream_live (main): the value returned, or the exception that leaves it
is_stream_live(resp) ==
    CASE resp.kind = "network_error" -> [raised |-> "TransportError", value |-> FALSE]
      [] resp.kind = "http_error"    -> [raised |-> "none", value |-> FALSE]
      [] resp.kind = "malformed"     -> [raised |-> "JSONDecodeError", value |-> FALSE]
      [] resp.kind = "empty"         -> [raised |-> "none", value |-> FALSE]
      [] resp.kind = "no_type"       -> [raised |-> "none", value |-> FALSE]
      [] resp.kind = "other_type"    -> [raised |-> "none", value |-> FALSE]
      [] resp.kind = "live"          -> [raised |-> "none", value |-> TRUE]

\* a Channel.is_live that takes a stream of any type as live
is_live_any(channel) == channel.type # "none"

\* Channel.is_live
is_live(channel) == channel.type = "live"

\* _get_channel (lib): the Channel returned, or the exception that leaves it
get_channel(resp) ==
    LET nochannel == [name |-> resp.user_login, type |-> "none"] IN
    CASE resp.kind = "network_error" -> [raised |-> "ConnectionError", channel |-> nochannel]
      [] resp.kind = "http_error"    -> [raised |-> "ValueError", channel |-> nochannel]
      [] resp.kind = "malformed"     -> [raised |-> "ValueError", channel |-> nochannel]
      [] resp.kind = "empty"         -> [raised |-> "KeyError", channel |-> nochannel]
      [] resp.kind = "no_type"       -> [raised |-> "KeyError", channel |-> nochannel]
      [] resp.kind = "other_type"    -> [raised |-> "none",
                                         channel |-> [name |-> resp.user_login, type |-> "rerun"]]
      [] resp.kind = "live"          -> [raised |-> "none",
                                         channel |-> [name |-> resp.user_login, type |-> "live"]]

\* a loop over channels that is left after its first turn
loop_done_first(i) == TRUE

\* isolate_who_went_live: "for channel in channels" ends after the last one
loop_done(i) == i = Len(channels)

\* the except clause of isolate_who_went_live (lib)
Caught == {"ValueError", "KeyError"}

\* ------------------------------------------------------------- credentials
TokenResponses == {[status |-> "ok", expires_in |-> e] : e \in ExpiresIn}
                  \cup {[status |-> "http_error", expires_in |-> 0]}

\* get_bearer_token: None, or the Auth built from the response
get_bearer_token(resp) ==
    IF resp.status # "ok" THEN None
    ELSE [expires_at |-> int(now + resp.expires_in * TicksPerSecond)]

\* _run: "if auth is None or auth.expired"
token_needed == IF auth = None THEN TRUE ELSE expired(auth)

\* the exit status of raise SystemExit(arg)
SystemExit(arg) == IF arg = None THEN 0 ELSE 1

\* _run without the raise SystemExit(): it goes on to isolate_who_went_live
after_token_fallthrough(a) == "load"

\* where _run goes when get_bearer_token returned a
after_token(a) == IF a = None THEN "auth_failed" ELSE "load"

\* ------------------------------------------------------------------- sinks
SinkStatuses == {"ok", "http_error", "network_error"}

\* a sink that raises on a non-success status as well
after_sink_raise(status, next) == IF status = "ok" THEN next ELSE "crashed"

\* where a sink's request leaves the process: httpx/requests raise on a
\* transport error, a non-success status is logged and the call returns
after_sink(status, next) == IF status = "network_error" THEN "crashed" ELSE next

\* a sink that makes its request also when its target is empty
sink_skipped_never(target) == FALSE

\* send_discord_webhook, send_pagerduty_alert: "if not webhook_url: return"
sink_skipped(target) == target = ""

\* a _run whose loop has no break
after_tail_loop(flag) == "gate"

\* _run: "if not loop_flag: break", and _run returns
after_tail(flag) == IF flag THEN "gate" ELSE "done"

Stopped == {"done", "auth_failed", "crashed", "killed"}
Running == {"gate", "load", "probe", "save_open", "save_dump",
            "discord", "pagerduty", "tail"}

\* the positions whose next step reads the clock
ClockRead == {"gate", "probe", "save_dump"}

\* the value isolate_who_went_live returns
isolate_result ==
    IF impl = "main" THEN new_actives
    ELSE {channel_name \in DOMAIN live_channel_map : channel_name \in new_actives}

\* ---------------------------------------------------------------- requests
\* a request made by the process, as the history keeps it
Req(to, n, batch, status) == [to |-> to, cycle |-> n, batch |-> batch, status |-> status]

\* -------------------------------------------------------------------- Init
ProcInit ==
    /\ pc = "gate"
    /\ exit_code = NoExit
    /\ auth = None
    /\ next_scan_at = 0
    /\ new_channels = {}
    /\ previous_state = EmptyDict
    /\ current_state = EmptyDict
    /\ live_channel_map = EmptyDict
    /\ new_actives = {}
    /\ idx = 1

HistInit ==
    /\ completed = 0
    /\ last_cycle = 0
    /\ prev_live = {}
    /\ last_live = {}
    /\ last_result = {}
    /\ live_now = {}
    /\ failed = {}
    /\ requests = <<>>
    /\ cycles = 0
    /\ restarted = FALSE

Init ==
    /\ impl \in {"main", "lib"}
    /\ loop_flag \in BOOLEAN
    /\ config \in [discord_webhook_url : {"", "https://discord/hook"},
                   pagerduty_key : {"", "key"}]
    /\ response = None
    /\ now = 1
    /\ state_file = Absent
    /\ ProcInit
    /\ HistInit

conf == <<impl, loop_flag, config, response>>
locals == <<previous_state, current_state, live_channel_map, new_actives, idx>>
cyclehist == <<completed, last_cycle, prev_live, last_live, last_result>>
hist == <<cyclehist, live_now, failed, requests, cycles, restarted>>

\* ----------------------------------------------------------------- actions
\* _run: the scan is not due; fall through to "if new_channels"
GateSkip ==
    /\ pc = "gate"
    /\ ~(now > next_scan_at)
    /\ pc' = IF new_channels # {} THEN "discord" ELSE "tail"
    /\ UNCHANGED <<conf, now, exit_code, auth, next_scan_at, new_channels,
                   state_file, locals, hist>>

\* _run: the scan is due and the held credential is valid
GateReuse ==
    /\ pc = "gate"
    /\ now > next_scan_at
    /\ cycles < MaxCycles
    /\ cycles' = cycles + 1
    /\ ~token_needed
    /\ pc' = "load"
    /\ requests' = <<>>
    /\ UNCHANGED <<conf, now, exit_code, auth, next_scan_at, new_channels,
                   state_file, locals, cyclehist, live_now, failed, restarted>>

\* _run: the scan is due and get_bearer_token is called and answers
GateToken ==
    /\ pc = "gate"
    /\ now > next_scan_at
    /\ cycles < MaxCycles
    /\ cycles' = cycles + 1
    /\ token_needed
    /\ \E resp \in TokenResponses :
          LET a == get_bearer_token(resp) IN
          /\ auth' = a
          /\ pc' = after_token(a)
          /\ exit_code' = IF after_token(a) = "auth_failed" THEN SystemExit(None)
                          ELSE exit_code
          /\ requests' = <<Req("token", cycles', {}, resp.status)>>
    /\ UNCHANGED <<conf, now, next_scan_at, new_channels, state_file, locals,
                   cyclehist, live_now, failed, restarted>>

\* _run: the scan is due and the token request raises (timeout, no connection)
GateTokenRaises ==
    /\ pc = "gate"
    /\ now > next_scan_at
    /\ cycles < MaxCycles
    /\ cycles' = cycles + 1
    /\ token_needed
    /\ pc' = "crashed"
    /\ exit_code' = 1
    /\ requests' = <<Req("token", cycles', {}, "network_error")>>
    /\ UNCHANGED <<conf, now, auth, next_scan_at, new_channels, state_file, locals,
                   cyclehist, live_now, failed, restarted>>

\* isolate_who_went_live: previous_state = _load_state(state_file)
LoadState ==
    /\ pc = "load"
    /\ LET r == load_state(state_file) IN
          IF r.ok
          THEN /\ previous_state' = r.value
               /\ pc' = "probe"
               /\ exit_code' = exit_code
          ELSE /\ previous_state' = previous_state
               /\ pc' = "crashed"
               /\ exit_code' = 1
    /\ current_state' = EmptyDict
    /\ live_channel_map' = EmptyDict
    /\ idx' = 1
    /\ live_now' = {}
    /\ failed' = {}
    /\ UNCHANGED <<conf, now, auth, next_scan_at, new_channels, state_file,
                   new_actives, cyclehist, requests, cycles, restarted>>

\* isolate_who_went_live: one turn of the loop over channels, the status
\* request answered with resp
ProbeTurn(resp) ==
    /\ pc = "probe"
    /\ idx <= Len(channels)
    /\ LET channel_name == channels[idx]
           m == is_stream_live(resp)
           l == get_channel(resp)
           raised == IF impl = "main" THEN m.raised ELSE l.raised
           uncaught == IF impl = "main" THEN raised # "none"
                       ELSE raised \notin Caught \cup {"none"}
           value == IF impl = "main" THEN m.value
                    ELSE IF raised # "none" THEN FALSE ELSE is_live(l.channel)
       IN
       /\ live_now' = IF resp.kind = "live" THEN live_now \cup {channel_name}
                      ELSE live_now
       /\ failed' = IF resp.kind \in FailureKinds THEN failed \cup {channel_name}
                    ELSE failed
       /\ IF uncaught
          THEN /\ pc' = "crashed"
               /\ exit_code' = 1
               /\ UNCHANGED <<current_state, live_channel_map, idx>>
          ELSE /\ current_state' = DictSet(current_state, channel_name, value)
               /\ live_channel_map' =
                     IF impl = "lib" /\ raised = "none" /\ is_live(l.channel)
                     THEN DictSet(live_channel_map, l.channel.name, l.channel)
                     ELSE live_channel_map
               /\ idx' = idx + 1
               /\ pc' = IF loop_done(idx) THEN "save_open" ELSE "probe"
               /\ exit_code' = exit_code
    /\ requests' = Append(requests, Req("status", cycles, {}, "-"))
    /\ UNCHANGED <<conf, now, auth, next_scan_at, new_channels, state_file,
                   previous_state, new_actives, cyclehist, cycles, restarted>>

Probe == \E resp \in StatusResponses : ProbeTurn(resp)

\* isolate_who_went_live: _isolate_newly_active, then _save_state opens the
\* file for writing, which empties it
SaveOpen ==
    /\ pc = "save_open"
    /\ new_actives' = isolate_newly_active(previous_state, current_state)
    /\ state_file' = File(<<>>)
    /\ pc' = "save_dump"
    /\ UNCHANGED <<conf, now, exit_code, auth, next_scan_at, new_channels,
                   previous_state, current_state, live_channel_map, idx, hist>>

\* _save_state: json.dump and close; isolate_who_went_live returns and _run
\* sets next_scan_at
SaveDump ==
    /\ pc = "save_dump"
    /\ state_file' = save_state(current_state, channels)
    /\ new_channels' = isolate_result
    /\ next_scan_at' = int(now) + ScanTicks
    /\ pc' = IF isolate_result # {} THEN "discord" ELSE "tail"
    \* the locals of isolate_who_went_live are gone
    /\ previous_state' = EmptyDict
    /\ current_state' = EmptyDict
    /\ live_channel_map' = EmptyDict
    /\ new_actives' = {}
    /\ idx' = 1
    /\ completed' = completed + 1
    /\ last_cycle' = cycles
    /\ prev_live' = last_live
    /\ last_live' = live_now
    /\ last_result' = isolate_result
    /\ live_now' = {}
    /\ failed' = {}
    /\ UNCHANGED <<conf, now, exit_code, auth, requests, cycles, restarted>>

\* send_discord_webhook
SendDiscord ==
    /\ pc = "discord"
    /\ IF sink_skipped(config.discord_webhook_url)
       THEN /\ pc' = "pagerduty"
            /\ UNCHANGED <<requests, exit_code>>
       ELSE \E status \in SinkStatuses :
            /\ requests' = Append(requests, Req("discord", cycles, new_channels, status))
            /\ pc' = after_sink(status, "pagerduty")
            /\ exit_code' = IF after_sink(status, "pagerduty") = "crashed" THEN 1
                            ELSE exit_code
    /\ UNCHANGED <<conf, now, auth, next_scan_at, new_channels, state_file, locals,
                   cyclehist, live_now, failed, cycles, restarted>>

\* send_pagerduty_alert, then new_channels is emptied
SendPagerduty ==
    /\ pc = "pagerduty"
    /\ IF sink_skipped(config.pagerduty_key)
       THEN /\ pc' = "tail"
            /\ new_channels' = {}
            /\ UNCHANGED <<requests, exit_code>>
       ELSE \E status \in SinkStatuses :
            /\ requests' = Append(requests, Req("pagerduty", cycles, new_channels, status))
            /\ pc' = after_sink(status, "tail")
            /\ new_channels' = IF after_sink(status, "tail") = "crashed"
                               THEN new_channels ELSE {}
            /\ exit_code' = IF after_sink(status, "tail") = "crashed" THEN 1
                            ELSE exit_code
    /\ UNCHANGED <<conf, now, auth, next_scan_at, state_file, locals,
                   cyclehist, live_now, failed, cycles, restarted>>

\* _run: "if not loop_flag: break", else the next turn of the while loop
LoopTail ==
    /\ pc = "tail"
    /\ pc' = after_tail(loop_flag)
    /\ exit_code' = IF after_tail(loop_flag) = "done" THEN 0 ELSE exit_code
    /\ UNCHANGED <<conf, now, auth, next_scan_at, new_channels, state_file,
                   locals, hist>>

\* ------------------------------------------------------------- environment
\* the clock advances; it is looked at by the gate of _run, by the probes
\* (the expiry of the credential they carry) and when next_scan_at is set, so
\* an advance is taken right before one of these
Tick ==
    /\ pc \in ClockRead
    /\ \E d \in {1, ScanTicks} :
          /\ d = 1 => (now % ScanTicks) < TicksPerSecond
          /\ now + d <= MaxTime
          /\ now' = now + d
    /\ UNCHANGED <<conf, pc, exit_code, auth, next_scan_at, new_channels,
                   state_file, locals, hist>>

\* the process is interrupted (SIGINT, kill) wherever it is
Interrupt ==
    /\ pc \in Running
    /\ pc' = "killed"
    /\ exit_code' = 130
    \* the memory of the process is gone
    /\ auth' = None
    /\ next_scan_at' = 0
    /\ new_channels' = {}
    /\ previous_state' = EmptyDict
    /\ current_state' = EmptyDict
    /\ live_channel_map' = EmptyDict
    /\ new_actives' = {}
    /\ idx' = 1
    /\ live_now' = {}
    /\ failed' = {}
    /\ restarted' = TRUE
    /\ UNCHANGED <<conf, now, state_file, cyclehist, requests, cycles>>

\* the program is started again, against the same state file
Restart ==
    /\ pc \in Stopped
    /\ cycles < MaxCycles
    /\ pc' = "gate"
    /\ exit_code' = NoExit
    /\ auth' = None
    /\ next_scan_at' = 0
    /\ new_channels' = {}
    /\ previous_state' = EmptyDict
    /\ current_state' = EmptyDict
    /\ live_channel_map' = EmptyDict
    /\ new_actives' = {}
    /\ idx' = 1
    /\ live_now' = {}
    /\ failed' = {}
    /\ restarted' = TRUE
    /\ UNCHANGED <<conf, now, state_file, cyclehist, requests, cycles>>

Next ==
    \/ GateSkip
    \/ GateReuse
    \/ GateToken
    \/ GateTokenRaises
    \/ LoadState
    \/ Probe
    \/ SaveOpen
    \/ SaveDump
    \/ SendDiscord
    \/ SendPagerduty
    \/ LoopTail
    \/ Tick
    \/ Interrupt
    \/ Restart

Spec == Init /\ [][Next]_vars

\* the steps of the process itself: a running process takes its next step
Step ==
    \/ GateSkip
    \/ GateReuse
    \/ GateToken
    \/ GateTokenRaises
    \/ LoadState
    \/ Probe
    \/ SaveOpen
    \/ SaveDump
    \/ SendDiscord
    \/ SendPagerduty
    \/ LoopTail

FairSpec == Init /\ [][Next]_vars /\ WF_vars(Step)

TypeOK ==
    /\ pc \in Running \cup Stopped
    /\ now \in 0..MaxTime
    /\ new_channels \subseteq Logins
    /\ completed <= cycles
    /\ cycles <= MaxCycles

\* ------------------------------ the state file in the hands of its surroundings
\* a state file left by an earlier run that watched another channel
OldFile == File(JsonDump([c \in {"other"} |-> TRUE], <<"other">>))

\* _run with both sinks configured, started where a state file may lie
EnvInit ==
    /\ impl \in {"main", "lib"}
    /\ loop_flag \in BOOLEAN
    /\ config = [discord_webhook_url |-> "https://discord/hook", pagerduty_key |-> "key"]
    /\ response = None
    /\ now = 1
    /\ state_file \in {Absent, OldFile}
    /\ ProcInit
    /\ HistInit

\* the state file is deleted between two cycles (os.path.exists then fails)
DeleteStateFile ==
    /\ pc = "gate"
    /\ state_file # Absent
    /\ state_file' = Absent
    /\ UNCHANGED <<conf, now, pc, exit_code, auth, next_scan_at, new_channels,
                   locals, hist>>

EnvNext ==
    \/ GateSkip
    \/ GateReuse
    \/ GateToken
    \/ GateTokenRaises
    \/ LoadState
    \/ Probe
    \/ SaveOpen
    \/ SaveDump
    \/ SendDiscord
    \/ SendPagerduty
    \/ LoopTail
    \/ Tick
    \/ Interrupt
    \/ Restart
    \/ DeleteStateFile

EnvSpec == EnvInit /\ [][EnvNext]_vars

\* ------------------------------------------- the change detector on its own
\* _isolate_newly_active is called on any two dictionaries
DiffInit ==
    /\ impl = "main"
    /\ loop_flag = FALSE
    /\ config = [discord_webhook_url |-> "", pagerduty_key |-> ""]
    /\ response = None
    /\ now = 1
    /\ state_file = Absent
    /\ pc = "diff_call"
    /\ exit_code = NoExit
    /\ auth = None
    /\ next_scan_at = 0
    /\ new_channels = {}
    /\ previous_state \in Dicts(Names)
    /\ current_state \in Dicts(Names)
    /\ live_channel_map = EmptyDict
    /\ new_actives = {}
    /\ idx = 1
    /\ HistInit

DiffCall ==
    /\ pc = "diff_call"
    /\ new_actives' = isolate_newly_active(previous_state, current_state)
    /\ pc' = "diff_done"
    /\ UNCHANGED <<conf, now, exit_code, auth, next_scan_at, new_channels,
                   state_file, previous_state, current_state, live_channel_map,
                   idx, hist>>

DiffNext == DiffCall

DiffSpec == DiffInit /\ [][DiffNext]_vars

\* ------------------------------------------------- the state file on its own
\* the orders in which the keys of S can have been inserted
Orders(S) == {q \in [1..Cardinality(S) -> S] : {q[i] : i \in DOMAIN q} = S}

\* what STATE_FILE may hold before a save: nothing, an emptied or cut-short
\* file, or any snapshot
PriorFiles ==
    {Absent, File(<<>>), File(<<[t |-> "open"]>>)}
    \cup {File(JsonDump(d, <<"other", "two", "one">>)) : d \in Dicts(Names)}

\* _save_state(state, path) is called on any map, over any file
StoreInit ==
    /\ impl = "main"
    /\ loop_flag = FALSE
    /\ config = [discord_webhook_url |-> "", pagerduty_key |-> ""]
    /\ response = None
    /\ now = 1
    /\ state_file \in PriorFiles
    /\ pc = "store_open"
    /\ exit_code = NoExit
    /\ auth = None
    /\ next_scan_at = 0
    /\ new_channels = {}
    /\ previous_state = EmptyDict
    /\ current_state \in Dicts(Names)
    /\ live_channel_map = EmptyDict
    /\ new_actives = {}
    /\ idx = 1
    /\ HistInit

\* _save_state: open(state_file, "w")
StoreOpen ==
    /\ pc = "store_open"
    /\ state_file' = File(<<>>)
    /\ pc' = "store_dump"
    /\ UNCHANGED <<conf, now, exit_code, auth, next_scan_at, new_channels,
                   locals, hist>>

\* _save_state: json.dump(state, outfile), and the file is closed
StoreDump ==
    /\ pc = "store_dump"
    /\ \E keys \in Orders(DOMAIN current_state) :
          state_file' = save_state(current_state, keys)
    /\ pc' = "store_load"
    /\ UNCHANGED <<conf, now, exit_code, auth, next_scan_at, new_channels,
                   locals, hist>>

\* _load_state(path)
StoreLoad ==
    /\ pc = "store_load"
    /\ LET r == load_state(state_file) IN
          /\ previous_state' = r.value
          /\ pc' = IF r.ok THEN "store_done" ELSE "store_raised"
    /\ UNCHANGED <<conf, now, exit_code, auth, next_scan_at, new_channels,
                   state_file, current_state, live_channel_map, new_actives,
                   idx, hist>>

StoreNext ==
    \/ StoreOpen
    \/ StoreDump
    \/ StoreLoad

StoreSpec == StoreInit /\ [][StoreNext]_vars

\* ------------------------------------------------------ one probe on its own
\* the loop over channels is run with any status response as the answer to
\* each of its requests
ProbeInit ==
    /\ impl \in {"main", "lib"}
    /\ loop_flag = FALSE
    /\ config = [discord_webhook_url |-> "", pagerduty_key |-> ""]
    /\ response \in [DOMAIN channels -> StatusResponses]
    /\ now = 1
    /\ state_file = Absent
    /\ pc = "probe"
    /\ exit_code = NoExit
    /\ auth = [expires_at |-> MaxTime + 1]
    /\ next_scan_at = 0
    /\ new_channels = {}
    /\ previous_state = EmptyDict
    /\ current_state = EmptyDict
    /\ live_channel_map = EmptyDict
    /\ new_actives = {}
    /\ idx = 1
    /\ HistInit

ProbeOne == ProbeTurn(response[idx])

ProbeNext == ProbeOne

ProbeSpec == ProbeInit /\ [][ProbeNext]_vars

\* ------------------------------------------------------------------ claims
\* what a later _load_state of the state file gives
Loaded == load_state(state_file)

\* the state file holds the snapshot of the last completed cycle
SnapshotSaved ==
    /\ completed >= 1
    /\ Loaded.ok
    /\ Loaded.value = [c \in ChannelSet |-> c \in last_live]

\* this step makes a request to to
Made(to) ==
    /\ requests' # requests
    /\ requests' # <<>>
    /\ requests'[Len(requests')].to = to

LastStatus == requests'[Len(requests')].status
LastBatch == requests'[Len(requests')].batch

\* a request to sink with c in its batch was made since the last cycle started
SentTo(sink, c) ==
    \E i \in DOMAIN requests : requests[i].to = sink /\ c \in requests[i].batch

\* C1: _isolate_newly_active(previous, current) is exactly the set of the
\* channels that are true in current and absent from or false in previous;
\* a channel that stays live, goes offline or stays offline is not in it.
C1_NewlyActive ==
    pc = "diff_done" =>
        /\ new_actives = {c \in Names : /\ c \in DOMAIN current_state
                                        /\ current_state[c] = TRUE
                                        /\ \/ c \notin DOMAIN previous_state
                                           \/ previous_state[c] = FALSE}
        /\ \A c \in DOMAIN previous_state :
              previous_state[c] = TRUE => c \notin new_actives
        /\ \A c \in DOMAIN current_state :
              current_state[c] = FALSE => c \notin new_actives

C1_Witness ==
    /\ pc = "diff_done"
    /\ "one" \in new_actives /\ "one" \notin DOMAIN previous_state
    /\ "two" \in DOMAIN previous_state /\ previous_state["two"] = TRUE
    /\ "two" \in DOMAIN current_state /\ current_state["two"] = TRUE
    /\ "two" \notin new_actives
    /\ "other" \in DOMAIN previous_state /\ previous_state["other"] = FALSE
    /\ "other" \in new_actives

\* C2: the value returned by a completed isolate_who_went_live is the set of
\* the channels probed live in that call and not probed live in the completed
\* call before it (all those probed live, for the first call, with no state
\* file).
C2_ResultIsTransitions ==
    completed >= 1 => last_result = last_live \ prev_live

\* C3: at-least-once delivery, as the safety property it needs: until the
\* next cycle starts, a transition the last cycle has observed and that has
\* not been sent to every enabled sink is not forgotten: the running process
\* still holds it in new_channels, or the state file does not record the
\* channel as live (so that the next cycle observes it again), also after an
\* interruption and a restart.
Pending(c) ==
    \/ pc \in Running /\ c \in new_channels
    \/ ~Loaded.ok
    \/ ~DictGet(Loaded.value, c, FALSE)

C3_NothingForgotten ==
    (impl = "main" /\ completed >= 1 /\ last_cycle = cycles) =>
        \A c \in last_result :
            /\ config.discord_webhook_url # "" => SentTo("discord", c) \/ Pending(c)
            /\ config.pagerduty_key # "" => SentTo("pagerduty", c) \/ Pending(c)

\* C4: a channel probed live in a cycle and in the cycle before it (so, in
\* every cycle of a stretch i..j) is not in the TransitionSet of the later
\* cycle and in no batch sent after it.
C4_NoRepeat ==
    \A c \in prev_live \cap last_live :
        /\ c \notin last_result
        /\ c \notin new_channels
        /\ \A m \in DOMAIN requests : c \notin requests[m].batch

C4_Witness ==
    /\ ~restarted
    /\ pc = "tail"
    /\ completed = 2
    /\ "one" \in prev_live /\ "one" \in last_live
    /\ \E m \in DOMAIN requests :
          requests[m].to = "discord" /\ requests[m].batch = {"two"}

\* C5: a failed probe (non-success status, malformed body, network error)
\* does not abort the cycle, and the failed channel is saved as false.
C5_ProbeFailureIsolated ==
    /\ failed # {} => pc # "crashed"
    /\ pc = "save_dump" =>
          \A c \in failed : c \in DOMAIN current_state /\ current_state[c] = FALSE

\* C6: when the token request comes back with a non-success status the loop
\* ends in that iteration: no status request, the state file as it was, no
\* request to a sink, in continuous and in single-shot mode; and the process
\* that ended so does nothing more.
C6_AuthFailureStops ==
    [][/\ (Made("token") /\ LastStatus = "http_error") =>
             /\ pc' = "auth_failed"
             /\ Len(requests') = 1
             /\ state_file' = state_file
       /\ (pc = "auth_failed" /\ pc' # "gate") =>
             /\ pc' = "auth_failed"
             /\ requests' = requests
             /\ state_file' = state_file]_vars

C6_Witness ==
    /\ pc = "auth_failed"
    /\ requests = <<Req("token", 2, {}, "http_error")>>
    /\ loop_flag
    /\ ~restarted
    /\ completed = 1
    /\ SnapshotSaved

\* C7: the exit code is non-zero when the credential cannot be acquired, and
\* 0 when a single-shot run completes.
C7_ExitCodes ==
    /\ pc = "auth_failed" => exit_code # 0
    /\ pc = "done" => exit_code = 0

\* C8: every status request is made with a credential that is not expired
\* at that moment.
C8_ProbeWithValidCredential ==
    [][Made("status") => now < auth.expires_at]_vars

\* C9: a cycle starts with a token request if and only if the held credential
\* is absent or expired at that moment; no other step makes one, and a valid
\* credential is carried unchanged into the cycle and through it.
CycleStart == pc = "gate" /\ cycles' = cycles + 1

AbsentOrExpired == IF auth = None THEN TRUE ELSE now >= auth.expires_at

C9_TokenIffNeeded ==
    [][/\ Made("token") <=> (CycleStart /\ AbsentOrExpired)
       /\ (CycleStart /\ ~AbsentOrExpired) => auth' = auth
       /\ (pc \in Running \ {"gate"} /\ pc' # "killed") => auth' = auth]_vars

C9_Witness ==
    /\ completed = 2
    /\ cycles = 2
    /\ ~restarted
    /\ auth # None
    /\ \A m \in DOMAIN requests : requests[m].to # "token"

\* C10: whatever status the two sinks answer with, a dispatch of a non-empty
\* batch makes its request to every enabled sink, a sink's failure does not
\* keep the other from being tried, and the loop goes on: the snapshot of the
\* cycle is saved and the process does not end on the failure.
Answered == LastStatus \in {"ok", "http_error"}

SinkRequests(sink) == {i \in DOMAIN requests : requests[i].to = sink}

C11_EmptyTargetSkipped ==
    /\ config.discord_webhook_url = "" => SinkRequests("discord") = {}
    /\ config.pagerduty_key = "" => SinkRequests("pagerduty") = {}
    /\ (config.discord_webhook_url = "" /\ pc = "pagerduty") =>
          /\ exit_code = NoExit
          /\ new_channels # {}
    /\ (config.discord_webhook_url = "" /\ config.pagerduty_key # ""
        /\ pc = "tail" /\ last_result # {}) =>
          \E i \in SinkRequests("pagerduty") : requests[i].batch = last_result
    /\ (config.pagerduty_key = "" /\ config.discord_webhook_url # ""
        /\ pc = "tail" /\ last_result # {}) =>
          /\ exit_code = NoExit
          /\ \E i \in SinkRequests("discord") : requests[i].batch = last_result

C11_Witness ==
    /\ config.discord_webhook_url = ""
    /\ config.pagerduty_key # ""
    /\ pc = "tail"
    /\ ~restarted
    /\ last_result = {"one", "two"}
    /\ SinkRequests("discord") = {}
    /\ \E i \in SinkRequests("pagerduty") : requests[i].batch = {"one", "two"}

\* C12: _load_state never raises: it returns the empty map when the state
\* file is absent or cannot be read (empty, cut short), and the cycle goes on
\* to its probes; after a cycle that started from the empty map (the file
\* was deleted between two cycles, or never written) every channel probed
\* live is in the TransitionSet.
C12_LoadNeverRaises ==
    /\ [][(pc = "load" /\ pc' \notin {"load", "killed"}) =>
             /\ pc' = "probe"
             /\ (state_file = Absent \/ ~Loaded.ok) => previous_state' = EmptyDict]_vars
    /\ [](pc = "save_dump" /\ previous_state = EmptyDict => new_actives = live_now)

\* C13: the state file, whenever it exists, holds a complete snapshot (the
\* one before the save or the one being saved), also in the middle of a save
\* and after an interruption there: a later _load_state reads a whole map
\* with one entry for every watched channel.
C13_AtomicSave ==
    state_file # Absent =>
        /\ Loaded.ok
        /\ DOMAIN Loaded.value = ChannelSet

\* C14: for every map of channel names to booleans, the empty one too,
\* _save_state followed by _load_state returns without raising a map equal to
\* the one saved, whatever the file held before and in whatever order the
\* keys were inserted.
C14_RoundTrip ==
    pc \in {"store_done", "store_raised"} =>
        /\ pc = "store_done"
        /\ previous_state = current_state

C14_Witness ==
    /\ pc = "store_done"
    /\ DOMAIN current_state = Names
    /\ current_state["one"] /\ ~current_state["two"] /\ ~current_state["other"]
    /\ previous_state = current_state
    /\ state_file.text[2].k = "other"

\* C15: a single-shot run (loop_flag false) passes the gate once and never
\* comes back to it; from the tail of its one iteration it returns with exit
\* status 0 and then does nothing more; it starts at most one cycle and makes
\* at most one request to each sink; and it ends, whatever its network calls
\* answer or raise.
C15_SingleShot ==
    /\ [][~loop_flag =>
             /\ pc' = "gate" => pc \in {"gate"} \cup Stopped
             /\ (pc = "gate" /\ pc' \in Running \ {"gate"}) => cycles' = cycles + 1
             /\ (pc = "tail" /\ pc' \notin {"tail", "killed"}) =>
                   /\ pc' = "done"
                   /\ exit_code' = 0
             /\ (pc = "done" /\ pc' # "gate") =>
                   /\ requests' = requests
                   /\ state_file' = state_file]_vars
    /\ []((~loop_flag /\ ~restarted) =>
             /\ cycles <= 1
             /\ Cardinality(SinkRequests("discord")) <= 1
             /\ Cardinality(SinkRequests("pagerduty")) <= 1)
    /\ (~loop_flag => <>(pc \in Stopped))

C15_Witness ==
    /\ ~loop_flag
    /\ ~restarted
    /\ pc = "done"
    /\ exit_code = 0
    /\ cycles = 1
    /\ completed = 1
    /\ Cardinality(SinkRequests("discord")) = 1
    /\ Cardinality(SinkRequests("pagerduty")) = 1

\* C16: the snapshot a completed cycle leaves in the state file has exactly
\* one entry for every watched channel and none for any other: entries the
\* previous snapshot had for channels not watched are gone, and so it stays
\* through the dispatch that follows the cycle and to the end of a
\* single-shot run.
C16_SnapshotKeys ==
    /\ [][(pc = "save_dump" /\ pc' \notin {"save_dump", "killed"}) =>
             /\ Loaded'.ok
             /\ DOMAIN Loaded'.value = ChannelSet
             /\ Len(state_file'.text) = Len(channels) + 2
             /\ \A k \in DOMAIN previous_state \ ChannelSet :
                   k \notin DOMAIN Loaded'.value]_vars
    /\ []((pc \in {"discord", "pagerduty"} \/ (pc \in {"tail", "done"} /\ ~loop_flag)) =>
             /\ Loaded.ok
             /\ DOMAIN Loaded.value = ChannelSet)

C16_Witness ==
    /\ pc = "tail"
    /\ ~restarted
    /\ completed = 2
    /\ prev_live = {"one", "two"}
    /\ last_live = {"two"}
    /\ Loaded.ok
    /\ Loaded.value = [c \in ChannelSet |-> c = "two"]

\* C17: in a turn of the loop a sink that is enabled gets exactly one
\* request, with the whole TransitionSet, when a cycle ran in that turn and
\* its TransitionSet is not empty, and none otherwise: a turn without a cycle
\* dispatches nothing, the batch is emptied after the dispatch and no sink
\* gets a second request for it.
TransitionSet == last_live \ prev_live

Enabled(sink) ==
    IF sink = "discord" THEN config.discord_webhook_url # ""
    ELSE config.pagerduty_key # ""

C17_OneRequestPerSink ==
    /\ [](pc \in {"gate", "tail"} => new_channels = {})
    /\ [](\A sink \in {"discord", "pagerduty"} :
             /\ Cardinality(SinkRequests(sink)) <= 1
             /\ (pc = "tail" /\ Enabled(sink)) =>
                   Cardinality(SinkRequests(sink)) =
                      IF TransitionSet # {} THEN 1 ELSE 0)
    /\ [][/\ \A sink \in {"discord", "pagerduty"} :
                Made(sink) => /\ pc = sink
                              /\ last_cycle = cycles
                              /\ LastBatch = TransitionSet
                              /\ LastBatch # {}
          /\ (pc = "gate" /\ cycles' = cycles /\ pc' \notin {"gate", "killed"}) =>
                pc' = "tail"]_vars

\* C18: in continuous mode a turn of the loop starts a cycle if and only if
\* now >= next_scan_at; next_scan_at is 0 before the first cycle and is set
\* to now + SCAN_FREQUENCY_SECONDS at the end of every cycle, so that the
\* first turn runs a cycle and a cycle starts no sooner than the scan
\* interval after the one before it ended.
C18_GateAtNextScan ==
    /\ [](pc = "gate" /\ completed = 0 /\ ~restarted => next_scan_at = 0)
    /\ [][/\ (loop_flag /\ pc = "gate" /\ pc' \notin {"gate", "killed"}) =>
                (cycles' = cycles + 1 <=> now >= next_scan_at)
          /\ (pc = "save_dump" /\ pc' \notin {"save_dump", "killed"}) =>
                next_scan_at' = now + ScanTicks]_vars

C20_SavedBeforeSent ==
    /\ [](pc \in {"discord", "pagerduty"} =>
             /\ last_cycle = cycles
             /\ SnapshotSaved)
    /\ [][\A sink \in {"discord", "pagerduty"} :
             Made(sink) => /\ last_cycle = cycles
                           /\ LastBatch = last_result
                           /\ SnapshotSaved
                           /\ state_file' = state_file]_vars

C20_Witness ==
    /\ pc = "pagerduty"
    /\ ~restarted
    /\ completed = 2
    /\ prev_live = {"one"}
    /\ last_live = {"one", "two"}
    /\ SnapshotSaved
    /\ \E i \in SinkRequests("discord") : requests[i].batch = {"two"}

\* C21: in _twitch_alerts.isolate_who_went_live the list returned holds a
\* Channel for every channel name of the TransitionSet computed in the call
\* and for no other, whatever the status responses, also when a response
\* carries a user_login other than the name asked for: no channel saved as
\* true and newly live is missing from it.
C21_ReturnedListComplete ==
    (impl = "lib" /\ pc = "save_dump") =>
        /\ new_actives = isolate_newly_active(previous_state, current_state)
        /\ isolate_result = new_actives
        /\ \A c \in new_actives : current_state[c] => c \in isolate_result

=============================================================================
